---- MODULE Spec2Model ----
(***************************************************************************)
(* Two-level hierarchical decision process of mcl_toolbox:                 *)
(* HierarchicalAgent (termination policy) and HierarchicalLearner.simulate *)
(* (generative / likelihood execution loop).                               *)
(*                                                                         *)
(* Reals are held in fixed point: the integer n stands for n / One.        *)
(***************************************************************************)
EXTENDS Integers, Sequences, FiniteSets, TLC

(***************************************************************************)
(* Bounds of the model                                                     *)
(***************************************************************************)
MaxTrials == 2
MaxActions == 3
MaxCalls == 2
MaxRuns == 2

(***************************************************************************)
(* Fixed-point arithmetic                                                  *)
(***************************************************************************)
\* the float 1.0 (the forced stop probability)
One == 100

\* the value of a non-finite float (log of a non-positive number)
NonFinite == -1000000

Max2(a, b) == IF a >= b THEN a ELSE b

Min2(a, b) == IF a <= b THEN a ELSE b

\* a / b rounded to the nearest integer, b > 0
RoundDiv(a, b) == (2 * a + b) \div (2 * b)

\* a * b of two fixed-point numbers
Mul(a, b) == RoundDiv(a * b, One)

ExpPosTable == <<100, 272, 739, 2009, 5460, 14841, 40343>>

ExpNegTable == <<100, 37, 14, 5, 2, 1>>

\* exp(k) of an integer k, in fixed point; overflows to a huge value and
\* underflows to 0
ExpInt(k) ==
  IF k >= 0
    THEN IF k + 1 <= Len(ExpPosTable) THEN ExpPosTable[k + 1] ELSE 100000000
    ELSE IF 1 - k <= Len(ExpNegTable) THEN ExpNegTable[1 - k] ELSE 0

\* np.exp(x) of a fixed-point x
NpExp(x) == ExpInt(RoundDiv(x, One))

SqrtTable == <<100, 141, 173, 200, 224, 245, 265>>

\* np.sqrt(n) of a small positive integer n
NpSqrt(n) == IF n <= Len(SqrtTable) THEN SqrtTable[n] ELSE 300

LogTable ==
  <<-461, -391, -351, -322, -300, -281, -266, -253, -241, -230, -221, -212, -204,
    -197, -190, -183, -177, -171, -166, -161, -156, -151, -147, -143, -139, -135,
    -131, -127, -124, -120, -117, -114, -111, -108, -105, -102, -99, -97, -94, -92,
    -89, -87, -84, -82, -80, -78, -76, -73, -71, -69, -67, -65, -63, -62, -60, -58,
    -56, -54, -53, -51, -49, -48, -46, -45, -43, -42, -40, -39, -37, -36, -34, -33,
    -31, -30, -29, -27, -26, -25, -24, -22, -21, -20, -19, -17, -16, -15, -14, -13,
    -12, -11, -9, -8, -7, -6, -5, -4, -3, -2, -1, 0>>

\* np.log(p) of a fixed-point p: -inf at 0 and nan below 0 are NonFinite
NpLog(p) ==
  IF p <= 0 THEN NonFinite
  ELSE IF p <= Len(LogTable) THEN LogTable[p]
  ELSE RoundDiv(p - One, 1)

RECURSIVE SeqSum(_)
SeqSum(s) == IF s = <<>> THEN 0 ELSE Head(s) + SeqSum(Tail(s))

\* np.sum of a list of floats: a non-finite term makes the sum non-finite
NpSum(s) ==
  IF \E i \in 1..Len(s) : s[i] = NonFinite THEN NonFinite ELSE SeqSum(s)

RECURSIVE SeqMax(_)
SeqMax(s) ==
  IF Len(s) = 1 THEN s[1] ELSE Max2(Head(s), SeqMax(Tail(s)))

RECURSIVE SeqMin(_)
SeqMin(s) ==
  IF Len(s) = 1 THEN s[1] ELSE Min2(Head(s), SeqMin(Tail(s)))

\* rows_mean: the arithmetic mean of a non-empty list
rows_mean(s) == RoundDiv(SeqSum(s), Len(s))

\* temp_sigmoid(x, t) = 1 / (1 + exp(-x / t))
temp_sigmoid(x, t) == (One * One) \div (One + ExpInt(-RoundDiv(x, t)))

\* insertion of x into a sorted sequence
RECURSIVE Insert(_, _)
Insert(x, s) ==
  IF s = <<>> THEN <<x>>
  ELSE IF x <= Head(s) THEN <<x>> \o s
  ELSE <<Head(s)>> \o Insert(x, Tail(s))

RECURSIVE Sorted(_)
Sorted(s) ==
  IF s = <<>> THEN <<>>
  ELSE CHOOSE r \in {Insert(Head(s), t) : t \in {Sorted(Tail(s))}} : TRUE

\* np.quantile(h, q), q in [0, 1]: linear interpolation between order statistics
NpQuantile(h, q) ==
  LET s == Sorted(h)
      pos == q * (Len(h) - 1)
      lo == pos \div One
      frac == pos % One
  IN  IF lo + 2 <= Len(s)
        THEN s[lo + 1] + RoundDiv(frac * (s[lo + 2] - s[lo + 1]), One)
        ELSE s[lo + 1]

RECURSIVE Fact(_)
Fact(n) == IF n <= 1 THEN 1 ELSE n * Fact(n - 1)

RECURSIVE Pow(_, _)
Pow(b, n) == IF n <= 0 THEN 1 ELSE b * Pow(b, n - 1)

\* sp.stats.gamma.pdf(delta, a=alpha, scale=beta) for an integer shape:
\* y^(a-1) exp(-y) / (beta (a-1)!), y = delta / beta; 0 left of the support
GammaPdf(delta, alpha, beta) ==
  LET n == RoundDiv(alpha, One)
      y == RoundDiv(delta * One, beta)
  IN  IF delta < 0 THEN 0
      ELSE (Pow(y, n - 1) * ExpInt(-y) * One) \div (beta * Fact(n - 1))

(***************************************************************************)
(* HierarchicalAgent.compute_stop_prob                                     *)
(***************************************************************************)
Rules ==
  {"threshold", "best_payoff", "average_payoff", "adaptive_satisficing", "feature",
   "best_path_difference", "VPI", "VOI1", "maximum_improvement",
   "expected_improvement", "quantile", "noisy_memory_best_payoff",
   "confidence_bound"}

\* the outcome of one evaluation: how it ended, the value returned, the parameter
\* mapping it leaves behind, the parameter keys it read, the environment queries it
\* made and the number of np.random.normal draws it took
Outcome(status, p, prm, keys, queries, normal) ==
  [status |-> status, p_stop |-> p, params |-> prm, keys |-> keys,
   queries |-> queries, normal |-> normal]

\* a rule whose score reads the parameters in req and nothing of the environment
Scored(prm, req, queries, p) ==
  IF req \subseteq DOMAIN prm
    THEN Outcome("ok", p, prm, req, queries, 0)
    ELSE Outcome("KeyError", 0, prm, req, queries, 0)

threshold_rule(prm, tauv, ev, a) ==
  LET q == {"get_available_actions", "get_max_dist_value", "get_min_dist_value"}
      max_min_diff == ev.max_dist - ev.min_dist
  IN  IF max_min_diff = 0 THEN Outcome("ZeroDivisionError", 0, prm, {}, q, 0)
      ELSE Scored(prm, {"theta"}, q,
             temp_sigmoid(RoundDiv((a.max_expected_return - ev.min_dist) * One,
                                   max_min_diff) - prm["theta"], tauv))

best_payoff_rule(prm, tauv, ev, a) ==
  Scored(prm, {"theta"}, {"get_available_actions"},
    temp_sigmoid(a.max_expected_return - Mul(NpExp(prm["theta"]), a.max_payoff), tauv))

average_payoff_rule(prm, tauv, ev, a) ==
  Scored(prm, {"theta"}, {"get_available_actions"},
    temp_sigmoid(a.max_expected_return - Mul(NpExp(prm["theta"]), a.avg_payoff), tauv))

adaptive_satisficing_rule(prm, tauv, ev, a) ==
  LET num_clicks == ev.num_actions - ev.avail
  IN  Scored(prm, {"a", "b"}, {"get_available_actions", "num_actions"},
        temp_sigmoid(a.max_expected_return - NpExp(prm["a"])
                       + NpExp(prm["b"]) * num_clicks, tauv))

\* self.termination_features and self.decision_params are never assigned
feature_rule(prm, tauv, ev, a) ==
  Outcome("AttributeError", 0, prm, {},
          {"get_available_actions", "compute_termination_feature_values"}, 0)

best_path_difference_rule(prm, tauv, ev, a) ==
  Scored(prm, {"theta"}, {"get_available_actions"},
    temp_sigmoid(a.max_payoff - a.max_expected_return - prm["theta"], tauv))

VPI_rule(prm, tauv, ev, a) ==
  Scored(prm, {"theta"}, {"get_available_actions"},
    temp_sigmoid(a.vpi - a.max_expected_return - prm["theta"], tauv))

VOI1_rule(prm, tauv, ev, a) ==
  Scored(prm, {"theta"}, {"get_available_actions"},
    temp_sigmoid(a.voi - a.max_expected_return - prm["theta"], tauv))

maximum_improvement_rule(prm, tauv, ev, a) ==
  Scored(prm, {"theta"}, {"get_available_actions"},
    temp_sigmoid(a.max_improvement - prm["theta"], tauv))

expected_improvement_rule(prm, tauv, ev, a) ==
  Scored(prm, {"theta"}, {"get_available_actions"},
    temp_sigmoid(a.expected_improvement - prm["theta"], tauv))

\* the two clamping bounds exchanged
ClampThetaSwapped(prm) ==
  LET up == IF prm["theta"] > One THEN [prm EXCEPT !["theta"] = 0] ELSE prm
  IN  IF up["theta"] < 0 THEN [up EXCEPT !["theta"] = One] ELSE up

\* lines 112-115: theta is clamped in place, in the agent's parameter mapping
ClampTheta(prm) ==
  LET up == IF prm["theta"] > One THEN [prm EXCEPT !["theta"] = One] ELSE prm
  IN  IF up["theta"] < 0 THEN [up EXCEPT !["theta"] = 0] ELSE up

quantile_rule(prm, tauv, ev, a) ==
  IF "theta" \notin DOMAIN prm
    THEN Outcome("KeyError", 0, prm, {"theta"}, {"get_available_actions"}, 0)
    ELSE LET clamped == ClampTheta(prm)
         IN  Outcome("ok",
                     temp_sigmoid(NpQuantile(a.path_history, clamped["theta"]), tauv),
                     clamped, {"theta"}, {"get_available_actions"}, 0)

SeqRange(s) == {s[i] : i \in 1..Len(s)}

\* lines 125-136: the product of the gamma density at trial_num - i over the
\* indices i (from 0) of the entries of h above reward (higher) or equal to it
RECURSIVE ForgetProduct(_, _, _, _, _, _, _)
ForgetProduct(h, i, trial_num, alpha, beta, reward, higher) ==
  IF i > Len(h) THEN One
  ELSE LET rest == ForgetProduct(h, i + 1, trial_num, alpha, beta, reward, higher)
           sel == IF higher THEN h[i] > reward ELSE h[i] = reward
       IN  IF sel THEN Mul(GammaPdf(trial_num - (i - 1), alpha, beta), rest)
           ELSE rest

\* lines 137-141: the term one remembered reward adds to p_stop
NoisyTerm(reward, h, trial_num, prm, tauv, mer) ==
  LET p_forget_higher ==
        ForgetProduct(h, 1, trial_num, prm["alpha"], prm["beta"], reward, TRUE)
      p_forget_reward ==
        ForgetProduct(h, 1, trial_num, prm["alpha"], prm["beta"], reward, FALSE)
      p_remember_reward == One - p_forget_reward
      p_stop_conditional ==
        temp_sigmoid(mer - Mul(NpExp(prm["theta"]), reward), tauv)
  IN  Mul(Mul(p_remember_reward, p_forget_higher), p_stop_conditional)

RECURSIVE NoisySum(_, _, _, _, _, _)
NoisySum(S, h, trial_num, prm, tauv, mer) ==
  IF S = {} THEN 0
  ELSE LET x == CHOOSE y \in S : TRUE
       IN  NoisyTerm(x, h, trial_num, prm, tauv, mer)
             + NoisySum(S \ {x}, h, trial_num, prm, tauv, mer)

noisy_memory_best_payoff_rule(prm, tauv, ev, a) ==
  LET req == {"alpha", "beta", "theta"}
      q == {"get_available_actions", "present_trial_num"}
  IN  IF ~(req \subseteq DOMAIN prm) THEN Outcome("KeyError", 0, prm, req, q, 0)
      ELSE Outcome("ok",
                   NoisySum(SeqRange(a.path_history), a.path_history,
                            ev.present_trial_num, prm, tauv, a.max_expected_return),
                   prm, req, q, 0)

\* z is the standard normal deviate np.random.normal draws
confidence_bound_rule(prm, tauv, ev, a, self_avg_payoff, z) ==
  LET trial_num == ev.present_trial_num
      q == {"get_available_actions", "present_trial_num"}
      req == IF trial_num = 0 THEN {"threshold_mean", "threshold_var"}
             ELSE {"threshold_var"}
  IN  IF ~(req \subseteq DOMAIN prm) THEN Outcome("KeyError", 0, prm, req, q, 0)
      ELSE
        LET threshold_mean == IF trial_num = 0 THEN prm["threshold_mean"]
                              ELSE self_avg_payoff
            sd == RoundDiv(prm["threshold_var"] * One, NpSqrt(trial_num + 1))
        IN  Outcome("ok",
                    temp_sigmoid(a.max_expected_return - (threshold_mean + z * sd),
                                 tauv),
                    prm, req, q, 1)

\* lines 60-156: the rule dispatch; a name outside the family leaves p_stop unbound
rule_value(rule, prm, tauv, ev, a, self_avg_payoff, z) ==
  CASE rule = "threshold" -> threshold_rule(prm, tauv, ev, a)
    [] rule = "best_payoff" -> best_payoff_rule(prm, tauv, ev, a)
    [] rule = "average_payoff" -> average_payoff_rule(prm, tauv, ev, a)
    [] rule = "adaptive_satisficing" -> adaptive_satisficing_rule(prm, tauv, ev, a)
    [] rule = "feature" -> feature_rule(prm, tauv, ev, a)
    [] rule = "best_path_difference" -> best_path_difference_rule(prm, tauv, ev, a)
    [] rule = "VPI" -> VPI_rule(prm, tauv, ev, a)
    [] rule = "VOI1" -> VOI1_rule(prm, tauv, ev, a)
    [] rule = "maximum_improvement" -> maximum_improvement_rule(prm, tauv, ev, a)
    [] rule = "expected_improvement" -> expected_improvement_rule(prm, tauv, ev, a)
    [] rule = "quantile" -> quantile_rule(prm, tauv, ev, a)
    [] rule = "noisy_memory_best_payoff" ->
         noisy_memory_best_payoff_rule(prm, tauv, ev, a)
    [] rule = "confidence_bound" ->
         confidence_bound_rule(prm, tauv, ev, a, self_avg_payoff, z)
    [] OTHER -> Outcome("UnboundLocalError", 0, prm, {}, {"get_available_actions"}, 0)

\* the single-action check dropped
single_action_never(ev) == FALSE

\* lines 58-59: a single available action forces the stop probability
single_action(ev) == ev.avail = 1

compute_stop_prob(rule, prm, tauv, ev, a, self_avg_payoff, z) ==
  IF single_action(ev)
    THEN Outcome("ok", One, prm, {}, {"get_available_actions"}, 0)
    ELSE rule_value(rule, prm, tauv, ev, a, self_avg_payoff, z)

\* the defaults of compute_stop_prob's keyword arguments (lines 46-53)
DefaultArgs ==
  [max_expected_return |-> 0, max_payoff |-> 0, avg_payoff |-> 0, vpi |-> 0,
   voi |-> 0, max_improvement |-> 0, expected_improvement |-> 0,
   path_history |-> <<0>>]
(***************************************************************************)
(* The random source (np.random): a seedable generator                     *)
(***************************************************************************)
Seeds == {0, 5}

NextRng(r) == (5 * r + 3) % 8

\* the uniform deviate in [0, 1) the generator gives in state r
Uniform(r) == (r * One) \div 8

\* the standard normal deviate the generator gives in state r
Normal(r) == (r % 3) - 1

(***************************************************************************)
(* The environment (external collaborator)                                 *)
(***************************************************************************)
Envs ==
  {[num_trials |-> nt, num_actions |-> na, min_dist |-> -5 * One,
    max_dist |-> 5 * One] : nt \in {0, MaxTrials}, na \in {1, MaxActions}}

\* node_map[0].calculate_max_expected_return() in trial t after c clicks
MaxExpectedReturn(t, c) == (((3 * t + 5 * c) % 7) - 3) * One

\* what compute_stop_prob reads of the environment
EnvView(e, t, av) ==
  [avail |-> av, num_actions |-> e.num_actions, present_trial_num |-> t,
   min_dist |-> e.min_dist, max_dist |-> e.max_dist]

(***************************************************************************)
(* The participant record (observed trajectories)                          *)
(***************************************************************************)
NoParticipant == [present |-> FALSE, actions |-> <<>>, rewards |-> <<>>]

Observed(n, acts, rews) ==
  [present |-> TRUE, actions |-> [t \in 1..n |-> acts],
   rewards |-> [t \in 1..n |-> rews]]

\* the observed trajectories offered for environment e: click then stop, stop at
\* once, a trial that never stops, one trial too few, one trial too many
Participants(e) ==
  LET n == e.num_trials
      click == IF e.num_actions >= 2 THEN <<1, 0>> ELSE <<0>>
      crew == IF e.num_actions >= 2 THEN <<-One, 2 * One>> ELSE <<2 * One>>
  IN  {Observed(n, click, crew), Observed(n, <<0>>, <<2 * One>>),
       Observed(n + 1, click, crew)}
      \cup (IF n >= 1 THEN {Observed(n - 1, click, crew)} ELSE {})
      \cup (IF e.num_actions >= 2 THEN {Observed(n, <<1>>, <<-One>>)} ELSE {})

(***************************************************************************)
(* Parameter mappings                                                      *)
(***************************************************************************)
ParamSets ==
  {[tau |-> 0, theta |-> 50, a |-> 0, b |-> 0, alpha |-> One, beta |-> 50,
    threshold_mean |-> 0, threshold_var |-> One],
   [tau |-> One, theta |-> 6 * One, a |-> One, b |-> 0, alpha |-> 2 * One,
    beta |-> One, threshold_mean |-> One, threshold_var |-> 0],
   [tau |-> 0, theta |-> -6 * One, a |-> 0, b |-> One, alpha |-> One,
    beta |-> One, threshold_mean |-> 0, threshold_var |-> One],
   [tau |-> 0]}

RuleNames == Rules \cup {"unknown"}

(***************************************************************************)
(* State                                                                   *)
(***************************************************************************)
VARIABLES
  \* HierarchicalAgent (the learner's decision_agent)
  decision_rule, params, tau, payoffs, max_payoff, avg_payoff, history,
  action_log_probs,
  \* HierarchicalLearner: no_term, and the parameter mapping it was built with
  no_term, config,
  \* the execution agent (actor_agent)
  actor_log_probs, actor_weights, actor_calls,
  \* the environment
  env, present_trial_num, avail,
  \* the random source
  rng,
  \* the frame of simulate
  pc, err, compute_likelihood, participant, trial_num, step_i, actions, rewards,
  trials_data,
  \* observation: the last evaluation of the rule, the last observed step scored,
  \* the calls made so far and what the previous call returned
  last, obs, runs, seed0, prev

agent_vars ==
  <<decision_rule, params, tau, payoffs, max_payoff, avg_payoff, history,
    action_log_probs>>

learner_vars == <<no_term, config>>

actor_vars == <<actor_log_probs, actor_weights, actor_calls>>

env_vars == <<env, present_trial_num, avail>>

frame_vars ==
  <<pc, err, compute_likelihood, participant, trial_num, step_i, actions, rewards,
    trials_data>>

vars ==
  <<agent_vars, learner_vars, actor_vars, env_vars, rng, frame_vars, last, obs, runs,
    seed0, prev>>

NoEvaluation ==
  [called |-> FALSE, status |-> "ok", returned |-> FALSE,
   params_before |-> [tau |-> 0], p_stop |-> 0, keys |-> {}, queries |-> {},
   normal |-> 0, draws |-> 0, avail |-> 0, args |-> DefaultArgs,
   agent_max_payoff |-> 0, agent_avg_payoff |-> 0, decisions |-> 0]

NoObservation ==
  [scored |-> FALSE, action |-> 0, p_stop |-> 0, action_prob |-> 0, logged |-> 0]

NoRecord == [w |-> <<>>, a |-> <<>>, r |-> <<>>, loss |-> <<>>]

NoPrev ==
  [returned |-> FALSE, compute_likelihood |-> FALSE, record |-> NoRecord]

(***************************************************************************)
(* HierarchicalAgent.__init__ and HierarchicalLearner.__init__             *)
(***************************************************************************)
Init ==
  /\ decision_rule \in RuleNames
  /\ params \in ParamSets
  /\ config = params
  /\ tau = NpExp(params["tau"])
  /\ payoffs = <<>>
  /\ max_payoff = 0
  /\ avg_payoff = 0
  /\ history = <<>>
  /\ action_log_probs = <<>>
  /\ no_term \in BOOLEAN
  /\ actor_log_probs = <<>>
  /\ actor_weights = 0
  /\ actor_calls = <<>>
  /\ env \in Envs
  /\ present_trial_num = 0
  /\ avail = env.num_actions
  /\ seed0 \in Seeds
  /\ rng = seed0
  /\ pc = "idle"
  /\ err = "none"
  /\ compute_likelihood = FALSE
  /\ participant \in {NoParticipant} \cup Participants(env)
  /\ trial_num = 0
  /\ step_i = 0
  /\ actions = <<>>
  /\ rewards = <<>>
  /\ trials_data = NoRecord
  /\ last = NoEvaluation
  /\ obs = NoObservation
  /\ runs = 0
  /\ prev = NoPrev
(***************************************************************************)
(* HierarchicalAgent: update_payoffs, update_history, init_model_params,   *)
(* get_action                                                              *)
(***************************************************************************)
\* lines 31-32
new_max_payoff(mx, total_reward) == IF total_reward > mx THEN total_reward ELSE mx

\* lines 28-30
new_avg_payoff(ps, total_reward) == rows_mean(Append(ps, total_reward))

\* the estimate put in front of the earlier ones
prepend_history(h, max_expected_return) == <<max_expected_return>> \o h

\* line 35
update_history(h, max_expected_return) == Append(h, max_expected_return)

\* history left as it is at the start of a run
keep_history(h) == h

\* line 41
init_history(h) == <<>>

\* lines 37-41: init_model_params assigns payoffs, max_payoff, avg_payoff and
\* history, and does not assign action_log_probs
init_action_log_probs(logs) == logs

\* lines 163-165: the arguments get_action passes on; max_payoff, avg_payoff and
\* the other features keep the defaults of compute_stop_prob
get_action_args(max_expected_return, h, mx, avg) ==
  [DefaultArgs EXCEPT !.max_expected_return = max_expected_return,
                      !.path_history = h]

\* line 166: np.random.choice([0, 1], p=[p_stop, 1 - p_stop]) rejects
\* probabilities outside [0, 1]
valid_probability(p) == p >= 0 /\ p <= One

\* the two outcomes of the draw exchanged
random_choice_swapped(u, p_stop) == IF u < p_stop THEN 1 ELSE 0

random_choice(u, p_stop) == IF u < p_stop THEN 0 ELSE 1

\* lines 158-167: the outcome of get_action in environment view ev with root value
\* mer, from history h and random source state r; n counts the calls made before
\* this one since the run started
get_action(rule, prm, tauv, ev, mer, h, mx, avg, r, n) ==
  LET h2 == update_history(h, mer)
      args == get_action_args(mer, h2, mx, avg)
      out == compute_stop_prob(rule, prm, tauv, ev, args, avg, Normal(r))
      r1 == IF out.normal = 1 THEN NextRng(r) ELSE r
      status == IF out.status # "ok" THEN out.status
                ELSE IF ~valid_probability(out.p_stop) THEN "ValueError"
                ELSE "ok"
  IN  [status |-> status,
       choice |-> random_choice(Uniform(r1), out.p_stop),
       p_stop |-> out.p_stop,
       history |-> h2,
       params |-> out.params,
       rng |-> IF status = "ok" THEN NextRng(r1) ELSE r1,
       eval |-> [called |-> TRUE, status |-> status,
                 returned |-> out.status = "ok", params_before |-> prm,
                 p_stop |-> out.p_stop,
                 keys |-> out.keys, queries |-> out.queries,
                 normal |-> out.normal,
                 draws |-> IF status = "ok" THEN 1 ELSE 0,
                 avail |-> ev.avail, args |-> args,
                 agent_max_payoff |-> mx, agent_avg_payoff |-> avg,
                 decisions |-> n + 1]]

(***************************************************************************)
(* The execution agent and the environment's moves (external)              *)
(***************************************************************************)
\* the action act_and_learn picks: the terminal action 0 or the next click
actor_pick(r, av, na) ==
  IF av = 1 \/ Uniform(r) < One \div 4 THEN 0 ELSE na - av + 1

\* env.step(action): the available actions left
env_step(action, av) == IF action = 0 THEN av ELSE Max2(1, av - 1)

\* env.step(action): the reward
env_reward(action, t, c) == IF action = 0 THEN MaxExpectedReturn(t, c) ELSE -One

\* store_action_likelihood: the log-probability the actor gives the action
actor_log_prob(av) == NpLog(One \div av)

(***************************************************************************)
(* HierarchicalLearner.simulate                                            *)
(***************************************************************************)
\* the floor constant hierarchical_params.precision_epsilon
precision_epsilon == 1

\* the probability of the observed choice without the floor
action_prob_unfloored(action, p_stop) ==
  IF action # 0 THEN One - p_stop ELSE p_stop

\* the two branches exchanged: a terminal action scored with 1 - p_stop
action_prob_swapped(action, p_stop) ==
  IF action = 0
    THEN IF One - p_stop = 0 THEN precision_epsilon ELSE One - p_stop
    ELSE IF p_stop = 0 THEN precision_epsilon ELSE p_stop

\* lines 212-219: the probability of the observed choice, floored when exactly 0
action_prob(action, p_stop) ==
  IF action # 0
    THEN IF One - p_stop = 0 THEN precision_epsilon ELSE One - p_stop
    ELSE IF p_stop = 0 THEN precision_epsilon ELSE p_stop

\* the loss computed as soon as either accumulator is non-empty
loss_of_either(decision_logs, actor_logs) ==
  IF decision_logs # <<>> \/ actor_logs # <<>>
    THEN <<-(NpSum(decision_logs) + NpSum(actor_logs))>>
    ELSE <<>>

\* lines 257-263: the loss of the Trial Record; <<>> stands for None
loss_of(decision_logs, actor_logs) ==
  IF decision_logs # <<>> /\ actor_logs # <<>>
    THEN IF NpSum(decision_logs) = NonFinite \/ NpSum(actor_logs) = NonFinite
           THEN <<NonFinite>>
           ELSE <<-(NpSum(decision_logs) + NpSum(actor_logs))>>
    ELSE <<>>

\* the execution agent asked for clicks only
actor_asked_on_click(noterm, action) == action # 0

\* line 223
actor_is_asked(noterm, action) == ~noterm \/ action # 0

\* lines 225-228; 0 - 1 stands for None
next_action_of(trial_actions, i) ==
  IF i # Len(trial_actions) - 1 THEN trial_actions[i + 2] ELSE -1
Clicks == env.num_actions - avail

\* the weights held at the start of the trial
weights_before_learning(weights, learnt) == weights - learnt

\* the weights after one more learning update
weights_after_update(weights) == weights + 1

\* line 202: get_current_weights() returns the weights the execution agent holds
\* when it is called
get_current_weights(weights) == weights

\* an exception leaves simulate: no Trial Record is returned
Raise(name) ==
  /\ pc' = "error"
  /\ err' = name

\* lines 185-194: the call; the caller seeds the random source with its fixed seed
\* before every run
Simulate(cl) ==
  /\ pc \in {"idle", "done"}
  /\ runs < MaxRuns
  /\ runs' = runs + 1
  /\ rng' = seed0
  /\ compute_likelihood' = cl
  /\ prev' = IF pc = "done"
               THEN [returned |-> TRUE,
                     compute_likelihood |-> compute_likelihood,
                     record |-> trials_data]
               ELSE prev
  /\ last' = NoEvaluation
  /\ obs' = NoObservation
  /\ IF ~participant.present
       THEN /\ Raise("AttributeError")
            /\ UNCHANGED <<agent_vars, actor_vars, env_vars, trial_num, step_i,
                           actions, rewards, trials_data>>
       ELSE /\ pc' = "trial"
            /\ err' = "none"
            /\ trials_data' = NoRecord
            /\ trial_num' = 0
            /\ step_i' = 0
            /\ actions' = <<>>
            /\ rewards' = <<>>
            /\ actor_log_probs' = <<>>
            /\ actor_weights' = 0
            /\ actor_calls' = <<>>
            /\ payoffs' = <<>>
            /\ max_payoff' = 0
            /\ avg_payoff' = 0
            /\ history' = init_history(history)
            /\ action_log_probs' = init_action_log_probs(action_log_probs)
            /\ present_trial_num' = 0
            /\ avail' = env.num_actions
            /\ UNCHANGED <<decision_rule, params, tau, env>>
  /\ UNCHANGED <<learner_vars, participant, seed0>>

\* lines 195-206: the head of one trial
TrialStart ==
  /\ pc = "trial"
  /\ trial_num < env.num_trials
  /\ actions' = <<>>
  /\ rewards' = <<>>
  /\ step_i' = 0
  /\ actor_calls' = <<>>
  /\ trials_data' =
       [trials_data EXCEPT !.w = Append(@, get_current_weights(actor_weights))]
  /\ IF compute_likelihood /\ trial_num + 1 > Len(participant.actions)
       THEN Raise("IndexError")
       ELSE /\ pc' = IF compute_likelihood THEN "replay" ELSE "plan"
            /\ UNCHANGED err
  /\ UNCHANGED <<agent_vars, learner_vars, actor_log_probs, actor_weights, env_vars, rng,
                 compute_likelihood, participant, trial_num, last, obs, runs, seed0,
                 prev>>

\* lines 207-231: one observed step of the replayed trial
ReplayStep ==
  /\ pc = "replay"
  /\ step_i < Len(participant.actions[trial_num + 1])
  /\ LET trial_actions == participant.actions[trial_num + 1]
         trial_rewards == participant.rewards[trial_num + 1]
         action == trial_actions[step_i + 1]
         reward == trial_rewards[step_i + 1]
         ga == get_action(decision_rule, params, tau,
                          EnvView(env, present_trial_num, avail),
                          MaxExpectedReturn(present_trial_num, Clicks), history,
                          max_payoff, avg_payoff, rng, last.decisions)
         prob == action_prob(action, ga.p_stop)
         asked == actor_is_asked(no_term, action)
     IN  /\ history' = ga.history
         /\ params' = ga.params
         /\ rng' = ga.rng
         /\ last' = ga.eval
         /\ IF ga.status # "ok"
              THEN /\ Raise(ga.status)
                   /\ UNCHANGED <<action_log_probs, actor_vars, avail, step_i,
                                  actions, rewards, obs>>
              ELSE /\ action_log_probs' = Append(action_log_probs, NpLog(prob))
                   /\ obs' = [scored |-> TRUE, action |-> action,
                              p_stop |-> ga.p_stop, action_prob |-> prob,
                              logged |-> NpLog(prob)]
                   /\ rewards' = Append(rewards, reward)
                   /\ actions' = Append(actions, action)
                   /\ step_i' = step_i + 1
                   /\ IF asked
                        THEN /\ actor_log_probs' =
                                  Append(actor_log_probs, actor_log_prob(avail))
                             /\ actor_weights' = actor_weights + 1
                             /\ actor_calls' =
                                  Append(actor_calls,
                                         [action |-> action, reward |-> reward,
                                          next_action |->
                                            next_action_of(trial_actions, step_i),
                                          logs_before |-> Len(action_log_probs) + 1])
                             /\ avail' = env_step(action, avail)
                        ELSE UNCHANGED <<actor_vars, avail>>
                   /\ UNCHANGED <<pc, err>>
  /\ UNCHANGED <<decision_rule, tau, payoffs, max_payoff, avg_payoff, learner_vars, env,
                 present_trial_num, compute_likelihood, participant, trial_num,
                 trials_data, runs, seed0, prev>>

\* lines 233-253: one turn of the stop/continue loop
PlanStep ==
  /\ pc = "plan"
  /\ \E ga \in {get_action(decision_rule, params, tau,
                            EnvView(env, present_trial_num, avail),
                            MaxExpectedReturn(present_trial_num, Clicks), history,
                            max_payoff, avg_payoff, rng, last.decisions)} :
     LET picked == actor_pick(ga.rng, avail, env.num_actions)
     IN  /\ history' = ga.history
         /\ params' = ga.params
         /\ last' = ga.eval
         /\ IF ga.status # "ok"
              THEN /\ Raise(ga.status)
                   /\ rng' = ga.rng
                   /\ UNCHANGED <<actor_vars, avail, actions, rewards>>
              ELSE IF ga.choice = 0
                THEN \* lines 236-242
                     /\ rng' = ga.rng
                     /\ actor_weights' = actor_weights + 1
                     /\ actor_calls' =
                          Append(actor_calls,
                                 [action |-> 0, reward |-> 0, next_action |-> -1,
                                  logs_before |-> 0])
                     /\ actions' = actions \o <<0, ga.choice>>
                     /\ rewards' =
                          Append(rewards, env_reward(0, present_trial_num, Clicks))
                     /\ pc' = "trial_end"
                     /\ UNCHANGED <<actor_log_probs, avail, err>>
                ELSE \* lines 244-253
                     /\ rng' = NextRng(ga.rng)
                     /\ actor_weights' = actor_weights + 1
                     /\ actor_calls' =
                          Append(actor_calls,
                                 [action |-> picked, reward |-> 0,
                                  next_action |-> -1, logs_before |-> 0])
                     /\ actions' = Append(actions, picked)
                     /\ rewards' =
                          Append(rewards,
                                 env_reward(picked, present_trial_num, Clicks))
                     /\ avail' = env_step(picked, avail)
                     /\ pc' = IF picked = 0 THEN "trial_end" ELSE "plan"
                     /\ UNCHANGED <<actor_log_probs, err>>
  /\ UNCHANGED <<decision_rule, tau, payoffs, max_payoff, avg_payoff,
                 action_log_probs, learner_vars, env, present_trial_num,
                 compute_likelihood, participant, trial_num, step_i, trials_data,
                 obs, runs, seed0, prev>>

\* lines 254-256: the end of one trial
TrialEnd ==
  /\ \/ pc = "trial_end"
     \/ pc = "replay" /\ step_i = Len(participant.actions[trial_num + 1])
  /\ present_trial_num' = present_trial_num + 1
  /\ avail' = env.num_actions
  /\ trials_data' = [trials_data EXCEPT !.a = Append(@, actions),
                                        !.r = Append(@, SeqSum(rewards))]
  /\ trial_num' = trial_num + 1
  /\ pc' = "trial"
  /\ UNCHANGED <<agent_vars, learner_vars, actor_vars, env, rng, err,
                 compute_likelihood, participant, step_i, actions, rewards, last,
                 obs, runs, seed0, prev>>

\* lines 257-264: the loss, and the return of the Trial Record
Finish ==
  /\ pc = "trial"
  /\ trial_num = env.num_trials
  /\ trials_data' =
       [trials_data EXCEPT !.loss = loss_of(action_log_probs, actor_log_probs)]
  /\ pc' = "done"
  /\ UNCHANGED <<agent_vars, learner_vars, actor_vars, env_vars, rng, err,
                 compute_likelihood, participant, trial_num, step_i, actions,
                 rewards, last, obs, runs, seed0, prev>>

Next ==
  \/ \E cl \in BOOLEAN : Simulate(cl)
  \/ TrialStart
  \/ ReplayStep
  \/ PlanStep
  \/ TrialEnd
  \/ Finish

Spec == Init /\ [][Next]_vars

\* generative runs on their own: the caller only asks for generative runs, and
\* passes a participant, which such a run does not read beyond line 186
InitGenerative ==
  /\ Init
  /\ no_term = FALSE
  /\ participant = Observed(env.num_trials, <<0>>, <<2 * One>>)

NextGenerative ==
  \/ Simulate(FALSE)
  \/ TrialStart
  \/ PlanStep
  \/ TrialEnd
  \/ Finish

\* the steps of a run that was called
RunStep ==
  \/ TrialStart
  \/ PlanStep
  \/ TrialEnd
  \/ Finish

\* simulate is sequential code: once called, the next step of the run is taken;
\* when simulate is called is the caller's choice
SpecGenerative ==
  /\ InitGenerative
  /\ [][NextGenerative]_vars
  /\ WF_vars(RunStep)
(***************************************************************************)
(* The termination agent's statistics on their own: a client calls         *)
(* init_model_params, update_payoffs and update_history in any order       *)
(***************************************************************************)
\* total rewards a trial can end with
Payoffs == {-2 * One, 3 * One}

\* root values the environment can report
Returns == {-3 * One, 2 * One}

InitAgent ==
  /\ Init
  /\ env = [num_trials |-> MaxTrials, num_actions |-> MaxActions,
            min_dist |-> -5 * One, max_dist |-> 5 * One]
  /\ participant = NoParticipant
  /\ no_term = FALSE
  /\ seed0 = 0

\* lines 37-41
CallInitModelParams ==
  /\ payoffs' = <<>>
  /\ max_payoff' = 0
  /\ avg_payoff' = 0
  /\ history' = init_history(history)
  /\ action_log_probs' = init_action_log_probs(action_log_probs)
  /\ UNCHANGED <<decision_rule, params, tau, learner_vars, actor_vars, env_vars, rng,
                 frame_vars, last, obs, runs, seed0, prev>>

\* lines 27-32
CallUpdatePayoffs(total_reward) ==
  /\ Len(payoffs) < MaxCalls
  /\ payoffs' = Append(payoffs, total_reward)
  /\ avg_payoff' = new_avg_payoff(payoffs, total_reward)
  /\ max_payoff' = new_max_payoff(max_payoff, total_reward)
  /\ UNCHANGED <<decision_rule, params, tau, history, action_log_probs, learner_vars,
                 actor_vars, env_vars, rng, frame_vars, last, obs, runs, seed0, prev>>

\* lines 34-35
CallUpdateHistory(max_expected_return) ==
  /\ Len(history) < MaxCalls
  /\ history' = update_history(history, max_expected_return)
  /\ UNCHANGED <<decision_rule, params, tau, payoffs, max_payoff, avg_payoff,
                 action_log_probs, learner_vars, actor_vars, env_vars, rng, frame_vars,
                 last, obs, runs, seed0, prev>>

\* lines 158-167: a stop decision in the first trial's initial state; an exception
\* reaches the client after history was appended
CallGetAction(max_expected_return) ==
  /\ Len(history) < MaxCalls
  /\ LET ga == get_action(decision_rule, params, tau,
                          EnvView(env, present_trial_num, avail),
                          max_expected_return, history, max_payoff, avg_payoff,
                          rng, last.decisions)
     IN  /\ history' = ga.history
         /\ params' = ga.params
         /\ rng' = ga.rng
         /\ last' = ga.eval
  /\ UNCHANGED <<decision_rule, tau, payoffs, max_payoff, avg_payoff,
                 action_log_probs, learner_vars, actor_vars, env_vars, frame_vars,
                 obs, runs, seed0, prev>>

NextAgent ==
  \/ CallInitModelParams
  \/ \E total_reward \in Payoffs : CallUpdatePayoffs(total_reward)
  \/ \E max_expected_return \in Returns : CallUpdateHistory(max_expected_return)

SpecAgent == InitAgent /\ [][NextAgent]_vars

\* a client that reports trial payoffs to the agent and asks it for stop decisions
NextDecide ==
  \/ \E total_reward \in Payoffs : CallUpdatePayoffs(total_reward)
  \/ \E max_expected_return \in Returns : CallGetAction(max_expected_return)

SpecDecide == InitAgent /\ [][NextDecide]_vars
(***************************************************************************)
(* Properties                                                              *)
(***************************************************************************)
RunStart == pc = "trial" /\ trial_num = 0

\* C1: whenever the rule is evaluated with a single available action, whatever
\* the rule name and the parameter mapping, the evaluation returns exactly 1.0,
\* reads no parameter, queries nothing of the environment but the available
\* actions and draws no normal deviate.
C1_SingleActionForcesStop ==
  (last.called /\ last.avail = 1) =>
    /\ last.returned
    /\ last.p_stop = One
    /\ last.keys = {}
    /\ last.queries = {"get_available_actions"}
    /\ last.normal = 0

\* C1 witness: an unknown rule name with a mapping that lacks theta was evaluated
\* with one available action, and stop was forced.
C1_Witness ==
  /\ last.called
  /\ last.avail = 1
  /\ decision_rule = "unknown"
  /\ "theta" \notin DOMAIN params
  /\ last.p_stop = One

\* C2 (as claimed): after init_model_params and any sequence of update_payoffs
\* calls, max_payoff is the maximum of payoffs, and 0 when payoffs is empty.
C2_MaxPayoffIsMaximum ==
  max_payoff = IF payoffs = <<>> THEN 0 ELSE SeqMax(payoffs)

\* C3 (as claimed): at the start of every run, the first and any later one, each
\* field of the termination state has the value of a freshly built agent.
C3_FreshStateAtRunStart ==
  RunStart =>
    /\ payoffs = <<>>
    /\ max_payoff = 0
    /\ avg_payoff = 0
    /\ history = <<>>
    /\ action_log_probs = <<>>

\* C4: when simulate returns, the loss is the negated sum of the termination
\* agent's and the execution agent's log-probabilities if both accumulators are
\* non-empty and None otherwise, and a generative run returns the loss None.
C4_LossAtReturn ==
  pc = "done" =>
    /\ trials_data.loss =
         IF action_log_probs # <<>> /\ actor_log_probs # <<>>
           THEN <<-(SeqSum(action_log_probs) + SeqSum(actor_log_probs))>>
           ELSE <<>>
    /\ ~compute_likelihood => trials_data.loss = <<>>

\* C4 witness: a likelihood run over at least one trial returned with a loss.
C4_Witness ==
  /\ pc = "done"
  /\ compute_likelihood
  /\ Len(trials_data.a) >= 1
  /\ trials_data.loss # <<>>

\* C5 (as claimed): a generative call without a participant does not fail.
C5_GenerativeNeedsNoParticipant ==
  (runs >= 1 /\ ~compute_likelihood /\ ~participant.present) => pc # "error"

\* C6: every probability whose logarithm is appended for an observed step is
\* strictly positive, the floor constant is what is logged when the rule gives the
\* observed choice exactly 0, and no logged entry is non-finite.
C6_LoggedProbabilityPositive ==
  /\ obs.scored =>
       /\ obs.action_prob > 0
       /\ obs.logged # NonFinite
       /\ (obs.action = 0 /\ obs.p_stop = 0) => obs.action_prob = precision_epsilon
       /\ (obs.action # 0 /\ One - obs.p_stop = 0) =>
            obs.action_prob = precision_epsilon
  /\ \A k \in 1..Len(action_log_probs) : action_log_probs[k] # NonFinite

\* C6 witness: an observed terminal action was scored where the rule gave stop
\* the probability exactly 0.
C6_Witness ==
  /\ obs.scored
  /\ obs.action = 0
  /\ obs.p_stop = 0
  /\ action_log_probs # <<>>

\* the probability the rule gives the observed choice
ObservedChoiceProbability ==
  IF obs.action = 0 THEN last.p_stop ELSE One - last.p_stop

\* C7 (as claimed): the value logged for an observed step is log(p_stop) for the
\* terminal action and log(1 - p_stop) otherwise, p_stop being what get_action
\* returned.
C7_LoggedIsLogOfRuleProbability ==
  (obs.scored /\ pc # "error") => obs.logged = NpLog(ObservedChoiceProbability)

\* C7 (amended): the value logged is the logarithm of the probability the rule
\* gives the observed choice, from the p_stop get_action returned, except that
\* log(precision_epsilon) is logged when that probability is exactly 0.
C7_LoggedIsLogOfFlooredProbability ==
  (obs.scored /\ pc # "error") =>
    /\ obs.p_stop = last.p_stop
    /\ obs.logged = NpLog(IF ObservedChoiceProbability = 0 THEN precision_epsilon
                          ELSE ObservedChoiceProbability)

\* C7 witness: observed steps of both kinds were scored with a probability
\* strictly between 0 and 1.
C7_Witness ==
  /\ obs.scored
  /\ pc # "error"
  /\ obs.action = 0
  /\ obs.p_stop > 0
  /\ obs.p_stop < One
  /\ Len(actions) >= 2
  /\ actions[1] # 0

\* C8 (as claimed): for every rule of the family, the value compute_stop_prob
\* returns is a probability.
C8_StopProbabilityInUnitInterval ==
  (last.called /\ last.returned /\ decision_rule \in Rules) =>
    valid_probability(last.p_stop)

\* C9: a generative run that follows a generative run on the same learner, from
\* the same random-source state, parameters and environment, returns the same
\* Trial Record, per-trial action sequences included.
C9_GenerativeRunsRepeat ==
  (pc = "done" /\ prev.returned /\ ~compute_likelihood
     /\ ~prev.compute_likelihood) => trials_data = prev.record

\* C9 witness: two generative runs returned, with a trial of two decisions.
C9_Witness ==
  /\ pc = "done"
  /\ prev.returned
  /\ ~compute_likelihood
  /\ ~prev.compute_likelihood
  /\ \E t \in 1..Len(trials_data.a) : Len(trials_data.a[t]) >= 2
  /\ Len(history) >= 2

\* C10: for the quantile rule a configured theta above 1 scores the maximum of
\* path_history and one below 0 scores its minimum, and the theta the agent keeps
\* after an evaluation lies in [0, 1].
C10_QuantileThetaClamped ==
  (last.called /\ last.returned /\ decision_rule = "quantile" /\ last.avail # 1) =>
    /\ config["theta"] > One =>
         last.p_stop = temp_sigmoid(SeqMax(last.args.path_history), tau)
    /\ config["theta"] < 0 =>
         last.p_stop = temp_sigmoid(SeqMin(last.args.path_history), tau)
    /\ params["theta"] >= 0 /\ params["theta"] <= One

\* C10 witness: the quantile rule, configured with a theta above 1, was evaluated
\* on a history whose maximum and minimum score differently.
C10_Witness ==
  /\ last.called
  /\ last.returned
  /\ decision_rule = "quantile"
  /\ last.avail # 1
  /\ config["theta"] > One
  /\ temp_sigmoid(SeqMax(last.args.path_history), tau)
       # temp_sigmoid(SeqMin(last.args.path_history), tau)

\* C11 (as claimed): in likelihood mode, when the number of observed trials
\* differs from env.num_trials, fewer or more, simulate fails and returns no
\* Trial Record.
C11_TrialCountMismatchFails ==
  (compute_likelihood /\ participant.present
     /\ Len(participant.actions) # env.num_trials) => pc # "done"

\* C12 (as claimed): no run configured with a decision rule name outside the
\* supported family completes and returns a Trial Record, whatever the
\* environment's available actions are.
C12_UnknownRuleNeverCompletes ==
  decision_rule \notin Rules => pc # "done"

\* C13 (as claimed): the decision-parameter mapping has the same keys and values
\* after any evaluation of the rule and any run as it was built with.
C13_ParamsUnchanged ==
  params = config

\* C14 (as claimed): in both modes, after k completed trials payoffs has length k
\* and its k-th entry is the sum of the k-th trial's rewards.
C14_PayoffRecordedPerTrial ==
  pc \in {"trial", "done"} => payoffs = trials_data.r

\* C15 (as claimed): every stop decision evaluates the rule with max_payoff and
\* avg_payoff equal to the agent's fields at that moment and with the agent's
\* history as path_history.
C15_StatisticsPassedToRule ==
  last.called =>
    /\ last.args.max_payoff = last.agent_max_payoff
    /\ last.args.avg_payoff = last.agent_avg_payoff
    /\ last.args.path_history = history

\* C16 (as claimed): in generative mode, at every trial end the action sequence
\* and the reward sequence of the trial have the same length.
C16_ActionsAndRewardsSameLength ==
  (~compute_likelihood /\ pc = "trial_end") => Len(actions) = Len(rewards)

\* the Trial Record holds one weight snapshot, one action sequence and one total
\* reward per trial
OnePerTrial ==
  pc = "done" =>
    /\ Len(trials_data.w) = env.num_trials
    /\ Len(trials_data.a) = env.num_trials
    /\ Len(trials_data.r) = env.num_trials

\* C17 (as claimed): w, a and r have env.num_trials entries each, and the weight
\* snapshot of a trial is taken on trial end, after the execution agent's
\* learning in that trial.
C17_SnapshotAtTrialEnd ==
  /\ OnePerTrial
  /\ (pc = "trial" /\ trial_num >= 1) =>
       trials_data.w[trial_num] = actor_weights

\* C17 (amended): w, a and r have env.num_trials entries each, and the weight
\* snapshot of a trial is taken at the start of the trial, before the execution
\* agent's learning in that trial.
C17_SnapshotAtTrialStart ==
  /\ OnePerTrial
  /\ pc \in {"replay", "plan", "trial_end"} =>
       /\ Len(trials_data.w) = trial_num + 1
       /\ trials_data.w[trial_num + 1] =
            weights_before_learning(actor_weights, Len(actor_calls))
  /\ (pc = "trial" /\ trial_num >= 1) =>
       trials_data.w[trial_num] =
         weights_before_learning(actor_weights, Len(actor_calls))

\* C17 witness: a run of two trials returned, the execution agent learnt in both
\* trials, and the second snapshot holds the weights learnt in the first trial only.
C17_Witness ==
  /\ pc = "done"
  /\ Len(trials_data.w) = 2
  /\ trials_data.w[2] > trials_data.w[1]
  /\ actor_weights > trials_data.w[2]

\* C18: each stop decision appends the root's max expected return to history
\* before the rule is evaluated, the rule sees the agent's history with that value
\* as its last element, and history, never cleared between trials, is as long as
\* the number of decisions made since the run started.
C18_EstimateRecordedBeforeScoring ==
  /\ last.called =>
       /\ last.args.path_history = history
       /\ Len(history) >= 1
       /\ history[Len(history)] = last.args.max_expected_return
  /\ participant.present => Len(history) = last.decisions

\* C18 witness: a decision of the second trial was evaluated on a history that
\* still holds a different estimate from the first trial.
C18_Witness ==
  /\ last.called
  /\ pc \in {"replay", "plan"}
  /\ trial_num = 1
  /\ Len(actions) >= 1
  /\ Len(history) >= 3
  /\ history[1] # history[Len(history)]

\* C19 (as claimed): in likelihood mode no draw is taken from the random source
\* for the termination decision.
C19_NoDrawInLikelihoodMode ==
  (compute_likelihood /\ last.called) => last.draws = 0

\* the observed steps of the trial, among the first n, at which the execution
\* agent is asked
AskedSteps(n) ==
  {k \in 1..n : ~no_term \/ participant.actions[trial_num + 1][k] # 0}

\* C20: in likelihood mode the execution agent is asked at an observed step
\* exactly when the observed action is non-terminal or no_term is false; it is
\* given the observed action and reward, and as next_action the observed action
\* of the next step or None at the last step; and the termination agent's
\* log-probability for the step is appended before the execution agent is called.
C20_ActorAskedPerObservedStep ==
  (compute_likelihood /\ pc = "replay" /\ step_i >= 1) =>
    LET trial_actions == participant.actions[trial_num + 1]
        trial_rewards == participant.rewards[trial_num + 1]
    IN  /\ Len(actor_calls) = Cardinality(AskedSteps(step_i))
        /\ step_i \in AskedSteps(step_i) =>
             actor_calls[Len(actor_calls)] =
               [action |-> trial_actions[step_i],
                reward |-> trial_rewards[step_i],
                next_action |-> IF step_i = Len(trial_actions) THEN -1
                                ELSE trial_actions[step_i + 1],
                logs_before |-> Len(action_log_probs)]

\* C20 witness: with no_term set, an observed click followed by the observed
\* terminal action was replayed: the execution agent was asked for the click only,
\* with the terminal action as next_action.
C20_Witness ==
  /\ compute_likelihood
  /\ pc = "replay"
  /\ no_term
  /\ step_i = 2
  /\ actions = <<1, 0>>
  /\ Len(actor_calls) = 1
  /\ actor_calls[1].next_action = 0

\* within a generative trial every decision but a failing one is followed by one
\* call of the execution agent: the decisions of the trial so far
TrialDecisions == Len(actor_calls)

\* the stop/continue loop has made fewer than env.num_actions decisions whenever
\* it asks for another one, a decision taken with a single available action is
\* a forced stop (two actions and one reward are appended), the environment is
\* advanced once per trial, and a run returns after env.num_trials trials
GenerativeLoopBounded ==
  ~compute_likelihood =>
    /\ pc = "plan" =>
         /\ TrialDecisions < env.num_actions
         /\ avail = env.num_actions - TrialDecisions
    /\ pc = "trial_end" => TrialDecisions <= env.num_actions
    /\ (pc = "trial_end" /\ last.avail = 1) =>
         /\ last.p_stop = One
         /\ Len(actions) = Len(rewards) + 1
    /\ present_trial_num = trial_num
    /\ pc = "done" => trial_num = env.num_trials

\* C21: every generative trial terminates: where each click removes one available
\* action, the stop/continue loop ends, by a stop, by the environment's done or
\* by an exception of the rule, after at most env.num_actions decisions, the
\* decision with a single action left being a forced stop; the environment is
\* advanced exactly once per trial and the run ends after env.num_trials trials.
C21_GenerativeTrialTerminates ==
  /\ []GenerativeLoopBounded
  /\ (~compute_likelihood /\ pc = "plan") ~> (pc \in {"trial_end", "error"})
  /\ (~compute_likelihood /\ pc = "trial") ~> (pc \in {"done", "error"})

\* C21 witness: a generative run of two trials returned, one trial of which took
\* env.num_actions decisions: every click, then the forced stop.
C21_Witness ==
  /\ pc = "done"
  /\ ~compute_likelihood
  /\ trial_num = MaxTrials
  /\ env.num_actions = MaxActions
  /\ present_trial_num = MaxTrials
  /\ TrialDecisions = env.num_actions
====
